---------------------------- MODULE Spec2Model ----------------------------
(***************************************************************************)
(* A model of statgen (src/src/lib.rs, src/src/main.rs): the HTML          *)
(* sanitizer, the colour validator, the title extractor, the document      *)
(* assembler, the escape normalizer, the theme script of the generated     *)
(* page as a browser runs it, and the command-line driver.                 *)
(*                                                                         *)
(* Texts are TLA+ strings; Len, \o and SubSeq act on them character by     *)
(* character, as Rust's str does on the ASCII texts used here.             *)
(***************************************************************************)
EXTENDS Integers, Sequences, FiniteSets, TLC

VARIABLES
    html,       \* sanitizer: the text held in `result` after the last pass
    prev,       \* sanitizer: the text the last pass was applied to
    passes,     \* sanitizer: number of sanitize_html applications so far
    color,      \* colour validator: the token passed to validate_color
    verdict,    \* colour validator: << >> before the call, << result >> after
    markdown,   \* title extractor: the text passed to extract_title
    title,      \* title extractor: << >> before the call, << returned option >> after
    req,        \* document assembler: the arguments of generate_html
    doc,        \* document assembler: "" before the call, the returned document after
    cli,        \* driver: the parsed command line (struct Cli)
    cfgFiles,   \* driver: the state of the three configuration files
    pc,         \* driver: the position of main
    config,     \* driver: the value returned by load_config
    opt,        \* driver: the options after CLI > config > default
    entries,    \* driver: the directory listing returned by read_dir
    next_entry, \* driver: index of the next entry of the listing
    processed_count,  \* driver: the counter of the batch loop
    markdown_content, \* driver: the markdown of single-file / inline mode
    html_content,     \* driver: the document generated in single-file / inline mode
    files,      \* driver: the files written so far, path |-> content
    stdout,     \* driver: lines printed with println!
    stderr,     \* driver: lines printed with eprintln!
    trace,      \* driver: the calls made so far, in order
    outcome,    \* driver: "running", then "ok" or "err" as main returns
    escaped,    \* escape normalizer: the text passed to unescape_newlines
    replaced,   \* escape normalizer: the local `result`, the text after the replacements
    unescaped,  \* escape normalizer: << >> before the call, << returned text >> after
    prefersDark,  \* browser: does (prefers-color-scheme: dark) match
    scriptRan,  \* browser: has the page's script run
    rootStyle,  \* browser: the inline style properties of the root element
    changes     \* browser: number of changes of the system preference so far

sanVars == << html, prev, passes >>
colVars == << color, verdict >>
titleVars == << markdown, title >>
genVars == << req, doc >>
mainVars == << cli, cfgFiles, pc, config, opt, entries, next_entry, processed_count,
               markdown_content, html_content, files, stdout, stderr, trace, outcome >>
unVars == << escaped, replaced, unescaped >>
viewVars == << prefersDark, scriptRan, rootStyle, changes >>
vars == << sanVars, colVars, titleVars, genVars, mainVars, unVars, viewVars >>

\* Option<T>: None is the empty sequence, Some(x) the sequence of x alone
None == << >>
Some(x) == << x >>

\* the state of a component no call of which is in progress
SanIdle == html = "" /\ prev = "" /\ passes = 0
ColIdle == color = "" /\ verdict = << >>
TitleIdle == markdown = "" /\ title = << >>
GenIdle == req = << >> /\ doc = ""
MainIdle ==
    /\ cli = << >> /\ cfgFiles = << >> /\ pc = "idle" /\ config = << >> /\ opt = << >>
    /\ entries = << >> /\ next_entry = 1 /\ processed_count = 0
    /\ markdown_content = "" /\ html_content = "" /\ files = << >>
    /\ stdout = << >> /\ stderr = << >> /\ trace = << >> /\ outcome = "running"
UnIdle == escaped = "" /\ replaced = "" /\ unescaped = << >>
ViewIdle == prefersDark = FALSE /\ scriptRan = FALSE /\ rootStyle = << >> /\ changes = 0

(***************************************************************************)
(* Bounds                                                                  *)
(***************************************************************************)
MaxFrags == 2      \* an input text is a concatenation of at most this many fragments
MaxPasses == 2     \* sanitize_html is re-applied to its own output this many times
MaxHexDigits == 8  \* a generated hex token has at most this many characters after '#'
MaxMdFrags == 3    \* a markdown text is a concatenation of at most this many fragments
MaxGenFrags == 2   \* the same for the markdown texts given to generate_html
MaxEntries == 2
MaxEscFrags == 3
MaxChanges == 2    \* a directory listing has at most this many entries

(***************************************************************************)
(* Text primitives (Rust str methods)                                      *)
(***************************************************************************)
\* s[i..] starts with pat (1-based i)
StartsWithAt(s, pat, i) ==
    /\ i >= 1
    /\ i + Len(pat) - 1 <= Len(s)
    /\ SubSeq(s, i, i + Len(pat) - 1) = pat

starts_with(s, pat) == StartsWithAt(s, pat, 1)

contains(s, pat) == \E i \in 1..(Len(s) - Len(pat) + 1) : StartsWithAt(s, pat, i)

\* position of the first occurrence of pat in s, 0 when there is none
Find(s, pat) ==
    IF contains(s, pat)
    THEN CHOOSE i \in 1..Len(s) :
             /\ StartsWithAt(s, pat, i)
             /\ \A j \in 1..(i - 1) : ~StartsWithAt(s, pat, j)
    ELSE 0

\* str::replace: every non-overlapping match, scanning left to right
RECURSIVE replace(_, _, _)
replace(s, from, to) ==
    LET at == Find(s, from) IN
    IF at = 0 THEN s
    ELSE SubSeq(s, 1, at - 1) \o to \o replace(SubSeq(s, at + Len(from), Len(s)), from, to)

\* number of positions at which pat occurs in s
Count(s, pat) == Cardinality({i \in 1..(Len(s) - Len(pat) + 1) : StartsWithAt(s, pat, i)})

\* the i-th character of s, and the set of its characters
CharAt(s, i) == SubSeq(s, i, i)
Chars(s) == {CharAt(s, i) : i \in 1..Len(s)}

\* str::to_lowercase on ASCII text
AsciiUpper == "ABCDEFGHIJKLMNOPQRSTUVWXYZ"
AsciiLower == "abcdefghijklmnopqrstuvwxyz"

LowerChar(c) ==
    IF c \in Chars(AsciiUpper)
    THEN CharAt(AsciiLower, CHOOSE i \in 1..Len(AsciiUpper) : CharAt(AsciiUpper, i) = c)
    ELSE c

RECURSIVE to_lowercase(_)
to_lowercase(s) ==
    IF s = "" THEN "" ELSE LowerChar(CharAt(s, 1)) \o to_lowercase(SubSeq(s, 2, Len(s)))

\* char::is_whitespace on ASCII
Whitespace == {" ", "\t", "\n", "\f", "\r"}

RECURSIVE trim_start(_)
trim_start(s) ==
    IF s # "" /\ CharAt(s, 1) \in Whitespace THEN trim_start(SubSeq(s, 2, Len(s))) ELSE s

RECURSIVE trim_end(_)
trim_end(s) ==
    IF s # "" /\ CharAt(s, Len(s)) \in Whitespace THEN trim_end(SubSeq(s, 1, Len(s) - 1)) ELSE s

trim(s) == trim_end(trim_start(s))

\* str::lines: split at "\n", a "\r" directly before the "\n" belongs to the
\* line ending, and a final line ending opens no further line
RECURSIVE lines(_)
lines(s) ==
    IF s = "" THEN << >>
    ELSE LET nl == Find(s, "\n") IN
         IF nl = 0 THEN << s >>
         ELSE LET line == SubSeq(s, 1, nl - 1)
                  bare == IF line # "" /\ CharAt(line, Len(line)) = "\r"
                          THEN SubSeq(line, 1, Len(line) - 1) ELSE line
              IN  << bare >> \o lines(SubSeq(s, nl + 1, Len(s)))

\* char::is_ascii_hexdigit
is_ascii_hexdigit(c) == c \in Chars("0123456789abcdefABCDEF")

(***************************************************************************)
(* sanitize_html  (lib.rs 3-39)                                            *)
(***************************************************************************)
dangerous_tags ==
    << "script", "iframe", "object", "embed", "form", "meta", "link", "style" >>

\* a sequence of (pattern, replacement) pairs applied in order, from the
\* i-th on; no rule finds anything in an empty text
RECURSIVE ApplyRules(_, _, _)
ApplyRules(s, rules, i) ==
    IF s = "" \/ i > Len(rules) THEN s
    ELSE ApplyRules(replace(s, rules[i][1], rules[i][2]), rules, i + 1)

\* variant of the loop body that forgets the closing-tag pattern
EscapeTagOpenOnly(s, tag) == ApplyRules(s, << << "<" \o tag, "&lt;" \o tag >> >>, 1)

\* the loop body of lines 10-15 for one tag
EscapeTag(s, tag) ==
    ApplyRules(s, << << "<" \o tag, "&lt;" \o tag >>,
                     << "</" \o tag, "&lt;/" \o tag >> >>, 1)

\* lines 10-15: the loop, from the i-th tag on
RECURSIVE EscapeTags(_, _)
EscapeTags(s, i) ==
    IF s = "" \/ i > Len(dangerous_tags) THEN s
    ELSE EscapeTags(EscapeTag(s, dangerous_tags[i]), i + 1)

\* variant that neutralises a scheme by prefixing it, leaving the scheme in place
EscapeSchemesByPrefix(s) ==
    ApplyRules(s, << << "javascript:", "unsafe:javascript:" >>,
                     << "vbscript:", "unsafe:vbscript:" >>,
                     << "data:", "unsafe:data:" >> >>, 1)

\* lines 19-21
EscapeSchemes(s) ==
    ApplyRules(s, << << "javascript:", "javascript&colon;" >>,
                     << "vbscript:", "vbscript&colon;" >>,
                     << "data:", "data&colon;" >> >>, 1)

\* variant whose handler list lacks onkeyup
EscapeHandlersNoKeyup(s) ==
    ApplyRules(s, << << " onclick", " on&click" >>,
                     << " onload", " on&load" >>,
                     << " onmouseover", " on&mouseover" >>,
                     << " onmouseout", " on&mouseout" >>,
                     << " onkeydown", " on&keydown" >>,
                     << " onsubmit", " on&submit" >> >>, 1)

\* lines 24-30
EscapeHandlers(s) ==
    ApplyRules(s, << << " onclick", " on&click" >>,
                     << " onload", " on&load" >>,
                     << " onmouseover", " on&mouseover" >>,
                     << " onmouseout", " on&mouseout" >>,
                     << " onkeydown", " on&keydown" >>,
                     << " onkeyup", " on&keyup" >>,
                     << " onsubmit", " on&submit" >> >>, 1)

\* variant that escapes every tag opening with "<in", not only <input
BlockInputsWide(s) == ApplyRules(s, << << "<in", "&lt;in" >> >>, 1)

\* line 33
BlockInputs(s) == ApplyRules(s, << << "<input", "&lt;input" >> >>, 1)

\* variant that re-admits a typed input whatever its type and state
ReadmitAnyTyped(s) ==
    ApplyRules(s, << << "&lt;input disabled", "<input disabled" >>,
                     << "&lt;input type=", "<input type=" >> >>, 1)

\* lines 35-36
ReadmitCheckboxes(s) ==
    ApplyRules(s, << << "&lt;input disabled", "<input disabled" >>,
                     << "&lt;input type=\"checkbox\" disabled",
                        "<input type=\"checkbox\" disabled" >> >>, 1)

sanitize_html(s) ==
    ReadmitCheckboxes(BlockInputs(EscapeHandlers(EscapeSchemes(EscapeTags(s, 1)))))

(***************************************************************************)
(* Sanitizer inputs: every concatenation of at most MaxFrags fragments.    *)
(* The fragments are the rule patterns, their pieces, and neutral text, so *)
(* that patterns also arise across fragment boundaries.                    *)
(***************************************************************************)
Frags ==
    { "<", "</", "&lt;", "&", "lt;", ">", ":", "x",
      "script", "iframe", "object", "embed", "form", "meta", "link", "style",
      "<script", "</script>", "<meta", "<in", "data", "<h1>Safe</h1>", "<div class=\"custom\">",
      "javascript:", "vbscript:", "data:", "java",
      " onclick", " onload", " onmouseover", " onmouseout",
      " onkeydown", " onkeyup", " onsubmit", " on", "click", " onerror",
      "<input", "&lt;input", "input", " disabled", " disabled>",
      " type=\"checkbox\" disabled>", " type=\"text\">",
      "input disabled", "input type=\"checkbox\" disabled" }

RECURSIVE Texts(_, _)
Texts(frags, n) ==
    IF n = 0 THEN {""}
    ELSE LET shorter == Texts(frags, n - 1)
         IN  shorter \cup {t \o f : t \in shorter, f \in frags}

Inputs == Texts(Frags, MaxFrags)

(***************************************************************************)
(* Sanitizer specification: a text is sanitized, then sanitized again.     *)
(***************************************************************************)
InitSanitize ==
    /\ html \in Inputs
    /\ prev = html
    /\ passes = 0
    /\ ColIdle /\ TitleIdle /\ GenIdle /\ MainIdle /\ UnIdle /\ ViewIdle

Sanitize ==
    /\ passes < MaxPasses
    /\ prev' = html
    /\ html' = sanitize_html(html)
    /\ passes' = passes + 1
    /\ UNCHANGED << colVars, titleVars, genVars, mainVars, unVars, viewVars >>

NextSanitize == Sanitize

SpecSanitize == InitSanitize /\ [][NextSanitize]_vars

(***************************************************************************)
(* Sanitizer claims                                                        *)
(***************************************************************************)
TagIndex == 1..Len(dangerous_tags)

SchemePatterns == {"javascript:", "vbscript:", "data:"}

HandlerPatterns ==
    {" onclick", " onload", " onmouseover", " onmouseout",
     " onkeydown", " onkeyup", " onsubmit"}

ReadmitPatterns == {"&lt;input disabled", "&lt;input type=\"checkbox\" disabled"}

RulePatterns ==
    {"<" \o dangerous_tags[i] : i \in TagIndex} \cup
    {"</" \o dangerous_tags[i] : i \in TagIndex} \cup
    SchemePatterns \cup HandlerPatterns \cup {"<input"} \cup ReadmitPatterns

\* C1: sanitize_html is idempotent: applying it to its own output changes
\* nothing.
C1_Idempotent == passes >= 2 => html = prev

C1_Witness ==
    /\ passes = 2
    /\ html = "<input disabled"
    /\ prev = html

\* C2: after a pass the text holds no "<name" and no "</name" for any of the
\* eight dangerous tag names, and each such occurrence of the input is
\* present in escaped form: the number of "&lt;name" ("&lt;/name") in the
\* output is the number of "<name" ("</name") plus the number of
\* already-escaped ones in the input.
C2_TagsEscaped ==
    passes >= 1 =>
        \A i \in TagIndex :
            LET tag == dangerous_tags[i] IN
            /\ ~contains(html, "<" \o tag)
            /\ ~contains(html, "</" \o tag)
            /\ Count(html, "&lt;" \o tag) =
                   Count(prev, "<" \o tag) + Count(prev, "&lt;" \o tag)
            /\ Count(html, "&lt;/" \o tag) =
                   Count(prev, "</" \o tag) + Count(prev, "&lt;/" \o tag)

\* "<meta" inside "<metadata:" is no tag boundary and is escaped all the same
C2_Witness ==
    /\ passes = 1
    /\ prev = "<metadata:"
    /\ html = "&lt;metadata&colon;"

\* the occurrences of pat in s that are directly followed by one of the two
\* re-admitted attribute lists
CountDisabled(s, pat) ==
    Cardinality({i \in 1..Len(s) :
        \/ StartsWithAt(s, pat \o " disabled", i)
        \/ StartsWithAt(s, pat \o " type=\"checkbox\" disabled", i)})

\* C4: after a pass every "<input" of the text is directly followed by
\* " disabled" or by " type=\"checkbox\" disabled"; every other "<input" of
\* the input is present as "&lt;input"; and the two examples of the
\* specification hold.
C4_InputsBlocked ==
    passes >= 1 =>
        /\ \A i \in 1..Len(html) :
               StartsWithAt(html, "<input", i) =>
                   \/ StartsWithAt(html, "<input disabled", i)
                   \/ StartsWithAt(html, "<input type=\"checkbox\" disabled", i)
        /\ Count(html, "&lt;input") =
               (Count(prev, "<input") - CountDisabled(prev, "<input"))
             + (Count(prev, "&lt;input") - CountDisabled(prev, "&lt;input"))
        /\ (prev = "<input disabled>" => html = "<input disabled>")
        /\ (prev = "<input type=\"text\">" => html = "&lt;input type=\"text\">")

C4_Witness ==
    /\ passes = 1
    /\ prev = "<input type=\"text\">"
    /\ html = "&lt;input type=\"text\">"

\* C5: after a pass the text holds none of the three URL schemes and none of
\* the seven space-prefixed handler names.
C5_NoSchemesNoHandlers ==
    passes >= 1 => \A p \in SchemePatterns \cup HandlerPatterns : ~contains(html, p)

\* a handler name on an input element: the input rules run after the handler
\* rule and leave its result alone
C5_Witness ==
    /\ passes = 1
    /\ prev = "<input onkeyup"
    /\ html = "&lt;input on&keyup"

\* C6: a text that contains none of the rule patterns is returned unchanged.
C6_OtherHtmlPreserved ==
    (passes >= 1 /\ \A p \in RulePatterns : ~contains(prev, p)) => html = prev

C6_Witness ==
    /\ passes = 1
    /\ prev = "<in<div class=\"custom\">"
    /\ html = prev

\* C17: a pass over a text without "<input" returns a text without "<input":
\* the re-admission restores only what the blocking step escaped.
C17_NoInputFromEscapedText ==
    (passes >= 1 /\ ~contains(prev, "<input")) => ~contains(html, "<input")
(***************************************************************************)
(* validate_color  (lib.rs 394-419)                                        *)
(***************************************************************************)
\* Result<(), String>
Ok == [ok |-> TRUE, err |-> ""]
Err(msg) == [ok |-> FALSE, err |-> msg]

named_colors ==
    { "red", "orange", "yellow", "green", "blue", "purple", "pink", "brown", "black", "white",
      "gray", "grey", "cyan", "magenta", "lime", "navy", "teal", "maroon", "olive", "silver",
      "aqua", "fuchsia", "indigo", "violet", "gold", "coral", "salmon", "crimson", "tomato" }

\* A character outside ASCII cannot be written in a string of this language;
\* the texts of the model use this character for U+00E9, which takes two
\* bytes in UTF-8.
EAcute == "~"

\* str::len: the length in bytes
ByteLen(s) == Len(s) + Count(s, EAcute)

\* variant of the length test written as a range
HexLenInRange(n) == n >= 3 /\ n <= 8

\* line 397
HexLenAccepted(n) == n = 3 \/ n = 4 \/ n = 6 \/ n = 8

\* lines 394-419
validate_color(c) ==
    IF starts_with(c, "#")
    THEN LET hex_part == SubSeq(c, 2, Len(c)) IN
         IF HexLenAccepted(ByteLen(hex_part))
         THEN IF \A i \in 1..Len(hex_part) : is_ascii_hexdigit(CharAt(hex_part, i))
              THEN Ok
              ELSE Err("Invalid hex color: " \o c)
         ELSE Err("Invalid hex color length: " \o c)
    ELSE IF to_lowercase(c) \in named_colors
         THEN Ok
         ELSE Err("Invalid color: " \o c \o
                  ". Use hex codes (#ff0000) or named colors (red, blue, etc)")

(***************************************************************************)
(* Colour tokens: '#' followed by up to MaxHexDigits characters of a small *)
(* alphabet with a non-hex character in it, the named colours in several   *)
(* spellings, and near misses.                                             *)
(***************************************************************************)
HexChars == {"f", "0", "G"}

NameFrags == {"re", "d", "RE", "D", "Gr", "ey", "ay", " ", "#", "x", "tomato", "Tom", "ato"}

ColorTokens ==
    {"#" \o t : t \in Texts(HexChars, MaxHexDigits)} \cup
    named_colors \cup
    Texts(NameFrags, 2) \cup
    { "#ff0000", "#ff00", "RED", "#fff000a", "chartreuse", "#3498db", "#FFAA00cc",
      "#ABCDEF", "#abcdeg", "Navy", "GOLD", "ff0000", "red ", "darkred",
      "#" \o EAcute \o EAcute, "#ff" \o EAcute, "#" \o EAcute, "caf" \o EAcute }

InitColor ==
    /\ color \in ColorTokens
    /\ verdict = << >>
    /\ SanIdle /\ TitleIdle /\ GenIdle /\ MainIdle /\ UnIdle /\ ViewIdle

ValidateColor ==
    /\ verdict = << >>
    /\ verdict' = << validate_color(color) >>
    /\ UNCHANGED << color, sanVars, titleVars, genVars, mainVars, unVars, viewVars >>

NextColor == ValidateColor

SpecColor == InitColor /\ [][NextColor]_vars

(***************************************************************************)
(* Colour validator claims                                                 *)
(***************************************************************************)
\* '#' followed by exactly n hexadecimal digits
IsHexToken(c, n) ==
    /\ Len(c) = n + 1
    /\ CharAt(c, 1) = "#"
    /\ \A i \in 2..(n + 1) : CharAt(c, i) \in Chars("0123456789abcdefABCDEF")

\* c and name are the same word up to the case of ASCII letters
SameIgnoringCase(c, name) ==
    /\ Len(c) = Len(name)
    /\ \A i \in 1..Len(c) :
           \/ CharAt(c, i) = CharAt(name, i)
           \/ \E k \in 1..26 : /\ CharAt(name, i) = CharAt(AsciiLower, k)
                               /\ CharAt(c, i) = CharAt(AsciiUpper, k)

Acceptable(c) ==
    \/ \E n \in {3, 4, 6, 8} : IsHexToken(c, n)
    \/ \E name \in named_colors : SameIgnoringCase(c, name)

\* C7: validate_color returns Ok exactly for '#' followed by 3, 4, 6 or 8
\* hexadecimal digits and for the named colours in any letter case; every
\* other token gets an error.  The five examples of the specification are
\* among the tokens.
C7_ColorAcceptance ==
    verdict # << >> =>
        /\ verdict[1].ok <=> Acceptable(color)
        /\ color \in {"#ff0000", "#ff00", "RED"} => verdict[1].ok
        /\ color \in {"#fff000a", "chartreuse"} => ~verdict[1].ok

\* seven hexadecimal digits: every character is fine, the length is not
C7_Witness ==
    /\ color = "#fff000a"
    /\ verdict # << >>
    /\ ~verdict[1].ok

\* the reason an error message gives, read off its opening words
ReasonOf(msg) ==
    { r \in {"length", "character", "name"} :
        \/ r = "length" /\ starts_with(msg, "Invalid hex color length: ")
        \/ r = "character" /\ starts_with(msg, "Invalid hex color: ")
        \/ r = "name" /\ starts_with(msg, "Invalid color: ") }

\* the text of an error message after the opening words of its reason
AfterReason(msg) ==
    SubSeq(msg, Find(msg, ": ") + 2, Len(msg))

\* C15: a rejected token gets an error that names the defect and
\* carries the token as given: '#' followed by a number of characters other
\* than 3, 4, 6 or 8 gets the length reason, '#' followed by 3, 4, 6 or 8
\* characters not all hexadecimal the character reason, a token without '#'
\* that is no named colour the name reason; every message gives exactly one
\* of the three reasons, followed by the token unchanged.
C15_ReasonByCharacterCount ==
    (verdict # << >> /\ ~verdict[1].ok) =>
        LET msg == verdict[1].err
            expected ==
                IF Len(color) > 0 /\ CharAt(color, 1) = "#"
                THEN IF Len(color) - 1 \in {3, 4, 6, 8} THEN "character" ELSE "length"
                ELSE "name"
        IN  /\ ReasonOf(msg) = {expected}
            /\ starts_with(AfterReason(msg), color)
            /\ expected # "name" => AfterReason(msg) = color
(***************************************************************************)
(* extract_title  (lib.rs 421-430)                                         *)
(***************************************************************************)
\* variant that returns the remainder without trimming it
TitleOfLineUntrimmed(line) ==
    LET trimmed == trim(line) IN
    IF starts_with(trimmed, "# ") THEN Some(SubSeq(trimmed, 3, Len(trimmed))) ELSE None

\* lines 424-427: the title a line yields, if any
TitleOfLine(line) ==
    LET trimmed == trim(line) IN
    IF starts_with(trimmed, "# ")
    THEN Some(trim(SubSeq(trimmed, 3, Len(trimmed))))
    ELSE None

\* lines 423-429: the loop, from line i on
RECURSIVE TitleFrom(_, _)
TitleFrom(ls, i) ==
    IF i > Len(ls) THEN None
    ELSE IF TitleOfLine(ls[i]) # None THEN TitleOfLine(ls[i])
         ELSE TitleFrom(ls, i + 1)

extract_title(md) == TitleFrom(lines(md), 1)

(***************************************************************************)
(* Markdown texts                                                          *)
(***************************************************************************)
MdFrags ==
    { "# ", "#", " ", "\n", "\r\n", "\t", "T", "Intro\n", "# Title", "\nBody",
      "no heading", "~~~\n" }

Markdowns == Texts(MdFrags, MaxMdFrags)

InitTitle ==
    /\ markdown \in Markdowns
    /\ title = << >>
    /\ SanIdle /\ ColIdle /\ GenIdle /\ MainIdle /\ UnIdle /\ ViewIdle

ExtractTitle ==
    /\ title = << >>
    /\ title' = << extract_title(markdown) >>
    /\ UNCHANGED << markdown, sanVars, colVars, genVars, mainVars, unVars, viewVars >>

NextTitle == ExtractTitle

SpecTitle == InitTitle /\ [][NextTitle]_vars

(***************************************************************************)
(* Title extractor claims                                                  *)
(***************************************************************************)
\* the lines of md whose trimmed form starts with "# "
HeadingLines(md) == {i \in 1..Len(lines(md)) : starts_with(trim(lines(md)[i]), "# ")}

\* C9: extract_title returns the trimmed remainder of the first line whose
\* trimmed form starts with "# ", and none when there is no such line; the
\* two examples of the specification hold.
C9_FirstHeading ==
    title # << >> =>
        /\ HeadingLines(markdown) = {} => title[1] = None
        /\ HeadingLines(markdown) # {} =>
               LET first == CHOOSE i \in HeadingLines(markdown) :
                                \A j \in HeadingLines(markdown) : i <= j
                   t == trim(lines(markdown)[first])
               IN  title[1] = Some(trim(SubSeq(t, 3, Len(t))))
        /\ markdown = "Intro\n# Title\nBody" => title[1] = Some("Title")
        /\ markdown = "no heading" => title[1] = None

\* a "# " line inside a fenced code block is taken for the title
C9_Witness ==
    /\ markdown = "~~~\n# Title\nBody"
    /\ title = << Some("Title") >>
(***************************************************************************)
(* generate_html  (lib.rs 41-360)                                          *)
(***************************************************************************)
\* urlencoding::encode on printable ASCII: letters, digits and - _ . ~ stay,
\* every other character becomes % and its two-digit upper-case hex code
Unreserved ==
    Chars("ABCDEFGHIJKLMNOPQRSTUVWXYZabcdefghijklmnopqrstuvwxyz0123456789-_.~")

Ascii32To95 == " !\"#$%&'()*+,-./0123456789:;<=>?@ABCDEFGHIJKLMNOPQRSTUVWXYZ[\\]^_"
Ascii97To126 == "abcdefghijklmnopqrstuvwxyz{|}~"

CodeOf(c) ==
    IF c \in Chars(Ascii32To95)
    THEN 31 + (CHOOSE i \in 1..Len(Ascii32To95) : CharAt(Ascii32To95, i) = c)
    ELSE 96 + (CHOOSE i \in 1..Len(Ascii97To126) : CharAt(Ascii97To126, i) = c)

HexDigitOf(n) == CharAt("0123456789ABCDEF", n + 1)

EncodeChar(c) ==
    IF c \in Unreserved THEN c
    ELSE "%" \o HexDigitOf(CodeOf(c) \div 16) \o HexDigitOf(CodeOf(c) % 16)

RECURSIVE encode(_)
encode(s) ==
    IF s = "" THEN "" ELSE EncodeChar(CharAt(s, 1)) \o encode(SubSeq(s, 2, Len(s)))

\* lines 121-126 of the format string, verbatim
DocUpToTitle ==
       "<!DOCTYPE html>\n"
    \o "<html lang=\"en\">\n"
    \o "<head>\n"
    \o "    <meta charset=\"UTF-8\">\n"
    \o "    <meta name=\"viewport\" content=\"width=device-width, initial-scale=1.0\">\n"
    \o "    <title>"
\* lines 126-127 of the format string, verbatim
DocTitleToFavicon ==
       "</title>\n"
    \o "    "
\* lines 127-130 of the format string, verbatim
DocFaviconToVariables ==
       "\n"
    \o "    <style>\n"
    \o "        :root {\n"
    \o "            "
\* lines 130-141 of the format string, verbatim
DocVariablesToFont ==
       (";\n"
        \o "            --shadow: 0 2px 8px rgba(0, 0, 0, 0.1);\n"
        \o "        }\n"
        \o "\n"
        \o "        * {\n"
        \o "            box-sizing: border-box;\n"
        \o "            margin: 0;\n"
        \o "            padding: 0;\n"
        \o "        }\n"
        \o "\n")
    \o ("        body {\n"
        \o "            font-family: ")
\* lines 141-142 of the format string, verbatim
DocFontToFontSize ==
       ";\n"
    \o "            font-size: "
\* lines 142-348 of the format string, verbatim
DocFontSizeToScript ==
       (";\n"
        \o "            line-height: 1.6;\n"
        \o "            color: var(--text-color);\n"
        \o "            background-color: var(--bg-color);\n"
        \o "            transition: background-color 0.3s ease, color 0.3s ease;\n"
        \o "            -webkit-font-smoothing: antialiased;\n"
        \o "            -moz-osx-font-smoothing: grayscale;\n"
        \o "            text-rendering: optimizeLegibility;\n"
        \o "            height: 100%;\n"
        \o "        }\n")
    \o ("\n"
        \o "        .container {\n"
        \o "            width: 100%;\n"
        \o "            padding: 3rem 2rem;\n"
        \o "            display: flex;\n"
        \o "            justify-content: flex-start;\n"
        \o "        }\n"
        \o "\n"
        \o "        .content {\n"
        \o "            text-align: left;\n")
    \o ("            width: 100%;\n"
        \o "        }\n"
        \o "\n"
        \o "        h1, h2, h3, h4, h5, h6 {\n"
        \o "            color: var(--header-color);\n"
        \o "            font-weight: 600;\n"
        \o "            line-height: 1.3;\n"
        \o "            margin-top: 3rem;\n"
        \o "            margin-bottom: 1.5rem;\n"
        \o "        }\n")
    \o ("\n"
        \o "        h1 {\n"
        \o "            font-size: 2.8rem;\n"
        \o "            font-weight: 700;\n"
        \o "            text-align: center;\n"
        \o "            margin-bottom: 4rem;\n"
        \o "            padding-bottom: 1.5rem;\n"
        \o "            border-bottom: 2px solid var(--link-color);\n"
        \o "        }\n"
        \o "\n")
    \o ("        h2 {\n"
        \o "            font-size: 1.8rem;\n"
        \o "            margin-top: 3rem;\n"
        \o "            padding-bottom: 0.5rem;\n"
        \o "            border-bottom: 1px solid var(--border-color);\n"
        \o "        }\n"
        \o "\n"
        \o "        h3 {\n"
        \o "            font-size: 1.5rem;\n"
        \o "            color: var(--link-color);\n")
    \o ("        }\n"
        \o "\n"
        \o "        h4 {\n"
        \o "            font-size: 1.25rem;\n"
        \o "        }\n"
        \o "\n"
        \o "        h5 {\n"
        \o "            font-size: 1.1rem;\n"
        \o "        }\n"
        \o "\n")
    \o ("        h6 {\n"
        \o "            font-size: 1rem;\n"
        \o "            color: var(--code-color);\n"
        \o "        }\n"
        \o "\n"
        \o "        p {\n"
        \o "            margin-bottom: 2rem;\n"
        \o "            text-align: left;\n"
        \o "            line-height: 1.7;\n"
        \o "        }\n")
    \o ("\n"
        \o "        ul, ol {\n"
        \o "            margin-bottom: 2rem;\n"
        \o "            padding-left: 2rem;\n"
        \o "        }\n"
        \o "\n"
        \o "        li {\n"
        \o "            margin-bottom: 0.75rem;\n"
        \o "            line-height: 1.6;\n"
        \o "        }\n")
    \o ("\n"
        \o "        blockquote {\n"
        \o "            border-left: 4px solid var(--link-color);\n"
        \o "            padding: 1.5rem 2rem;\n"
        \o "            margin: 3rem 0;\n"
        \o "            background-color: var(--blockquote-bg);\n"
        \o "            font-style: italic;\n"
        \o "            border-radius: 0 8px 8px 0;\n"
        \o "        }\n"
        \o "\n")
    \o ("        code {\n"
        \o "            background-color: var(--code-bg);\n"
        \o "            color: var(--code-color);\n"
        \o "            padding: 0.2rem 0.4rem;\n"
        \o "            border-radius: 3px;\n"
        \o "            font-family: 'SF Mono', Monaco, 'Cascadia Code', 'Roboto Mono', Consolas, 'Courier New', monospace;\n"
        \o "            font-size: 0.9em;\n"
        \o "        }\n"
        \o "\n"
        \o "        pre {\n")
    \o ("            background-color: var(--code-bg);\n"
        \o "            padding: 2rem;\n"
        \o "            border-radius: 8px;\n"
        \o "            overflow-x: auto;\n"
        \o "            margin: 3rem 0;\n"
        \o "            border: 1px solid var(--border-color);\n"
        \o "            box-shadow: 0 2px 8px rgba(0, 0, 0, 0.1);\n"
        \o "        }\n"
        \o "\n"
        \o "        pre code {\n")
    \o ("            background-color: transparent;\n"
        \o "            padding: 0;\n"
        \o "        }\n"
        \o "\n"
        \o "        table {\n"
        \o "            width: 100%;\n"
        \o "            border-collapse: collapse;\n"
        \o "            margin: 3rem 0;\n"
        \o "            background-color: var(--blockquote-bg);\n"
        \o "            border-radius: 8px;\n")
    \o ("            overflow: hidden;\n"
        \o "            box-shadow: 0 2px 8px rgba(0, 0, 0, 0.1);\n"
        \o "        }\n"
        \o "\n"
        \o "        th, td {\n"
        \o "            padding: 1rem 1.25rem;\n"
        \o "            text-align: left;\n"
        \o "            border-bottom: 1px solid var(--border-color);\n"
        \o "        }\n"
        \o "\n")
    \o ("        th {\n"
        \o "            background-color: var(--code-bg);\n"
        \o "            color: var(--header-color);\n"
        \o "            font-weight: 600;\n"
        \o "            text-transform: uppercase;\n"
        \o "            font-size: 0.8rem;\n"
        \o "            letter-spacing: 0.05em;\n"
        \o "        }\n"
        \o "\n"
        \o "        tr:nth-child(even) {\n")
    \o ("            background-color: var(--bg-color);\n"
        \o "        }\n"
        \o "\n"
        \o "        a {\n"
        \o "            color: var(--link-color);\n"
        \o "            text-decoration: none;\n"
        \o "            transition: color 0.2s ease;\n"
        \o "            will-change: color;\n"
        \o "        }\n"
        \o "\n")
    \o ("        a:hover {\n"
        \o "            color: var(--text-color);\n"
        \o "            text-decoration: underline;\n"
        \o "        }\n"
        \o "\n"
        \o "        hr {\n"
        \o "            border: none;\n"
        \o "            height: 2px;\n"
        \o "            background: linear-gradient(90deg, transparent, var(--border-color), transparent);\n"
        \o "            margin: 3rem 0;\n")
    \o ("        }\n"
        \o "\n"
        \o "        img {\n"
        \o "            max-width: 100%;\n"
        \o "            height: auto;\n"
        \o "            border-radius: 8px;\n"
        \o "            margin: 3rem 0;\n"
        \o "            box-shadow: 0 2px 12px rgba(0, 0, 0, 0.15);\n"
        \o "        }\n"
        \o "\n")
    \o ("        .footnote {\n"
        \o "            font-size: 0.85rem;\n"
        \o "            color: var(--code-color);\n"
        \o "        }\n"
        \o "\n"
        \o "        /* Responsive design */\n"
        \o "        @media (max-width: 768px) {\n"
        \o "            .container {\n"
        \o "                padding: 1.5rem 1rem;\n"
        \o "            }\n")
    \o ("\n"
        \o "            h1 {\n"
        \o "                font-size: 2.2rem;\n"
        \o "                margin-bottom: 2.5rem;\n"
        \o "            }\n"
        \o "\n"
        \o "            h2 {\n"
        \o "                font-size: 1.6rem;\n"
        \o "            }\n"
        \o "\n")
    \o ("            p {\n"
        \o "                margin-bottom: 1.5rem;\n"
        \o "                line-height: 1.6;\n"
        \o "            }\n"
        \o "\n"
        \o "            pre {\n"
        \o "                padding: 1.25rem;\n"
        \o "                margin: 2rem 0;\n"
        \o "            }\n"
        \o "\n")
    \o ("            blockquote {\n"
        \o "                padding: 1rem 1.25rem;\n"
        \o "                margin: 2rem 0;\n"
        \o "            }\n"
        \o "        }\n"
        \o "    </style>\n"
        \o "    ")
\* lines 348-353 of the format string, verbatim
DocScriptToBody ==
       "\n"
    \o "</head>\n"
    \o "<body>\n"
    \o "    <div class=\"container\">\n"
    \o "        <div class=\"content\">\n"
    \o "            "
\* lines 353-357 of the format string, verbatim
DocAfterBody ==
       "\n"
    \o "        </div>\n"
    \o "    </div>\n"
    \o "</body>\n"
    \o "</html>"
\* lines 81-90 of the format string, verbatim
ScriptUpToDarkAccent ==
       "<script>\n"
    \o "        function applyTheme(theme) {\n"
    \o "            const root = document.documentElement;\n"
    \o "            if (theme === 'dark') {\n"
    \o "                root.style.setProperty('--bg-color', '#1a1a1a');\n"
    \o "                root.style.setProperty('--text-color', '#e0e0e0');\n"
    \o "                root.style.setProperty('--header-color', '#ffffff');\n"
    \o "                root.style.setProperty('--code-bg', '#2d2d2d');\n"
    \o "                root.style.setProperty('--code-color', '#cccccc');\n"
    \o "                root.style.setProperty('--link-color', '"
\* lines 90-99 of the format string, verbatim
ScriptDarkToLightAccent ==
       "');\n"
    \o "                root.style.setProperty('--blockquote-bg', '#2a2a2a');\n"
    \o "                root.style.setProperty('--border-color', '#404040');\n"
    \o "            } else {\n"
    \o "                root.style.setProperty('--bg-color', '#f4f4f4');\n"
    \o "                root.style.setProperty('--text-color', '#333');\n"
    \o "                root.style.setProperty('--header-color', '#2c3e50');\n"
    \o "                root.style.setProperty('--code-bg', '#e7e7e7');\n"
    \o "                root.style.setProperty('--code-color', '#333');\n"
    \o "                root.style.setProperty('--link-color', '"
\* lines 99-113 of the format string, verbatim
ScriptAfterLightAccent ==
       ("');\n"
        \o "                root.style.setProperty('--blockquote-bg', '#f9f9f9');\n"
        \o "                root.style.setProperty('--border-color', '#e0e0e0');\n"
        \o "            }\n"
        \o "        }\n"
        \o "\n"
        \o "        // Detect system theme\n"
        \o "        const prefersDark = window.matchMedia('(prefers-color-scheme: dark)').matches;\n"
        \o "        applyTheme(prefersDark ? 'dark' : 'light');\n"
        \o "\n")
    \o ("        // Listen for changes\n"
        \o "        window.matchMedia('(prefers-color-scheme: dark)').addEventListener('change', (e) => {\n"
        \o "            applyTheme(e.matches ? 'dark' : 'light');\n"
        \o "        });\n"
        \o "        </script>")
\* line 44 of the format string, verbatim
FaviconUpToEmoji ==
       "<link rel=\"icon\" href=\"data:image/svg+xml,<svg xmlns=%22http://www.w3.org/2000/svg%22 viewBox=%220 0 100 100%22><text y=%22.9em%22 font-size=%2290%22>"
\* line 44 of the format string, verbatim
FaviconAfterEmoji ==
       "</text></svg>\">"
\* lines 43-48
favicon_link(favicon) ==
    IF favicon # None
    THEN FaviconUpToEmoji \o encode(favicon[1]) \o FaviconAfterEmoji
    ELSE ""

\* lines 50-62: the markdown renderer is the pulldown-cmark crate, which is
\* not part of the repository.  RenderLine keeps the behaviour the
\* repository relies on: a "# " line becomes an h1 element, raw HTML passes
\* through untouched, any other non-blank line becomes a paragraph.
RenderLine(line) ==
    IF trim(line) = "" THEN ""
    ELSE IF starts_with(line, "# ")
         THEN "<h1>" \o trim(SubSeq(line, 3, Len(line))) \o "</h1>\n"
         ELSE IF starts_with(line, "<") THEN line \o "\n"
              ELSE "<p>" \o line \o "</p>\n"

RECURSIVE RenderLines(_, _)
RenderLines(ls, i) ==
    IF i > Len(ls) THEN "" ELSE RenderLine(ls[i]) \o RenderLines(ls, i + 1)

push_html(md) == RenderLines(lines(md), 1)

\* the usual escaping of text for an HTML element
RECURSIVE EscapeText(_)
EscapeText(s) ==
    IF s = "" THEN ""
    ELSE LET c == CharAt(s, 1) IN
         (CASE c = "&" -> "&amp;" [] c = "<" -> "&lt;" [] c = ">" -> "&gt;" [] OTHER -> c)
             \o EscapeText(SubSeq(s, 2, Len(s)))

\* variant that escapes the extracted title before it is interpolated
TitleTextEscaped(md) ==
    IF extract_title(md) # None THEN EscapeText(extract_title(md)[1]) ELSE "Static Site"

\* line 68
TitleText(md) ==
    IF extract_title(md) # None THEN extract_title(md)[1] ELSE "Static Site"

\* the palette match with the fallback arm taking the dark colours
PaletteDarkFallback(theme) ==
    CASE theme = "light" ->
           [body_bg |-> "#f4f4f4", body_color |-> "#333", header_color |-> "#2c3e50",
            code_bg |-> "#e7e7e7", code_color |-> "#333", blockquote_bg |-> "#f9f9f9",
            border_color |-> "#e0e0e0"]
      [] theme = "auto" ->
           [body_bg |-> "#f4f4f4", body_color |-> "#333", header_color |-> "#2c3e50",
            code_bg |-> "#e7e7e7", code_color |-> "#333", blockquote_bg |-> "#f9f9f9",
            border_color |-> "#e0e0e0"]
      [] OTHER ->
           [body_bg |-> "#1a1a1a", body_color |-> "#e0e0e0", header_color |-> "#ffffff",
            code_bg |-> "#2d2d2d", code_color |-> "#cccccc", blockquote_bg |-> "#2a2a2a",
            border_color |-> "#404040"]

\* lines 71-75
Palette(theme) ==
    CASE theme = "dark" ->
           [body_bg |-> "#1a1a1a", body_color |-> "#e0e0e0", header_color |-> "#ffffff",
            code_bg |-> "#2d2d2d", code_color |-> "#cccccc", blockquote_bg |-> "#2a2a2a",
            border_color |-> "#404040"]
      [] theme = "auto" ->
           [body_bg |-> "#f4f4f4", body_color |-> "#333", header_color |-> "#2c3e50",
            code_bg |-> "#e7e7e7", code_color |-> "#333", blockquote_bg |-> "#f9f9f9",
            border_color |-> "#e0e0e0"]
      [] OTHER ->
           [body_bg |-> "#f4f4f4", body_color |-> "#333", header_color |-> "#2c3e50",
            code_bg |-> "#e7e7e7", code_color |-> "#333", blockquote_bg |-> "#f9f9f9",
            border_color |-> "#e0e0e0"]

\* the script emitted for every theme that is neither "light" nor "dark"
ThemeScriptUnlessFixed(theme, accent, accent_light, accent_dark) ==
    IF theme # "light" /\ theme # "dark"
    THEN LET light_accent == IF accent_light # None THEN accent_light[1] ELSE accent
             dark_accent == IF accent_dark # None THEN accent_dark[1] ELSE accent
         IN  ScriptUpToDarkAccent \o dark_accent \o ScriptDarkToLightAccent
                 \o light_accent \o ScriptAfterLightAccent
    ELSE ""

\* the script with the two accents filled in the other way round
ThemeScriptAccentsSwapped(theme, accent, accent_light, accent_dark) ==
    IF theme = "auto"
    THEN LET light_accent == IF accent_light # None THEN accent_light[1] ELSE accent
             dark_accent == IF accent_dark # None THEN accent_dark[1] ELSE accent
         IN  ScriptUpToDarkAccent \o light_accent \o ScriptDarkToLightAccent
                 \o dark_accent \o ScriptAfterLightAccent
    ELSE ""

\* lines 77-116
theme_script(theme, accent, accent_light, accent_dark) ==
    IF theme = "auto"
    THEN LET light_accent == IF accent_light # None THEN accent_light[1] ELSE accent
             dark_accent == IF accent_dark # None THEN accent_dark[1] ELSE accent
         IN  ScriptUpToDarkAccent \o dark_accent \o ScriptDarkToLightAccent
                 \o light_accent \o ScriptAfterLightAccent
    ELSE ""

\* line 118
css_variables(theme, accent) ==
    LET p == Palette(theme) IN
    "--bg-color: " \o p.body_bg \o "; --text-color: " \o p.body_color
        \o "; --header-color: " \o p.header_color \o "; --code-bg: " \o p.code_bg
        \o "; --code-color: " \o p.code_color \o "; --link-color: " \o accent
        \o "; --blockquote-bg: " \o p.blockquote_bg \o "; --border-color: " \o p.border_color \o ";"

generate_html(md, font_size, font, theme, accent, accent_light, accent_dark, favicon) ==
    LET sanitized_output == sanitize_html(push_html(md)) IN
    DocUpToTitle \o TitleText(md)
        \o DocTitleToFavicon \o favicon_link(favicon)
        \o DocFaviconToVariables \o css_variables(theme, accent)
        \o DocVariablesToFont \o font
        \o DocFontToFontSize \o font_size
        \o DocFontSizeToScript \o theme_script(theme, accent, accent_light, accent_dark)
        \o DocScriptToBody \o sanitized_output
        \o DocAfterBody

(***************************************************************************)
(* Requests to generate_html                                               *)
(***************************************************************************)
GenMdFrags ==
    { "# ", "<script>", "Hello", "\n", "</title>", "Just content, no header.", " a&b " }

GenMarkdowns ==
    Texts(GenMdFrags, MaxGenFrags) \cup
    { "<script>alert('xss')</script>\n\n# Safe Header",
      "# Test\n\n<div class=\"custom\">HTML content</div>\n\n**Markdown** here" }

Themes == {"light", "dark", "auto", "sepia"}

Requests ==
    [ markdown : GenMarkdowns,
      font_size : {"16px"},
      font : {"sans-serif"},
      theme : Themes,
      accent : {"#3498db", "red"},
      accent_light : {None, Some("#0066cc")},
      accent_dark : {None, Some("gold")},
      favicon : {None, Some("<R>")} ]

InitGenerate ==
    /\ req \in Requests
    /\ doc = ""
    /\ SanIdle /\ ColIdle /\ TitleIdle /\ MainIdle /\ UnIdle /\ ViewIdle

Generate ==
    /\ doc = ""
    /\ doc' = generate_html(req.markdown, req.font_size, req.font, req.theme, req.accent,
                            req.accent_light, req.accent_dark, req.favicon)
    /\ UNCHANGED << req, sanVars, colVars, titleVars, mainVars, unVars, viewVars >>

NextGenerate == Generate

SpecGenerate == InitGenerate /\ [][NextGenerate]_vars

(***************************************************************************)
(* Document assembler claims                                               *)
(***************************************************************************)
\* C3: for every theme other than "auto" the returned document contains no
\* literal "<script".  (Font, font size, accent and favicon of every request
\* are free of "<script".)
C3_NoScriptInDocument ==
    (doc # "" /\ req.theme # "auto") => ~contains(doc, "<script")

\* C10: the title element of the document holds extract_title(markdown) as
\* it is, without HTML escaping, and "Static Site" when there is no title.
C10_TitleVerbatim ==
    doc # "" =>
        LET found == extract_title(req.markdown)
            expected == IF found = None THEN "Static Site" ELSE found[1]
            at == Find(doc, "<title>")
        IN  /\ at > 0
            /\ StartsWithAt(doc, expected \o "</title>", at + Len("<title>"))

\* a title with markup in it reaches the title element unescaped
C10_Witness ==
    /\ req.markdown = "#  a&b "
    /\ contains(doc, "<title>a&b</title>")

\* the text of the document between the end of the style element and the
\* end of the head: the place of the theme script
ScriptPart(d) ==
    LET open == "    </style>\n    "
        rest == SubSeq(d, Find(d, open) + Len(open), Len(d))
    IN  SubSeq(rest, 1, Find(rest, "\n</head>") - 1)

\* the property assignments of the two branches of applyTheme, as the script
\* lists them before and after the --link-color assignment
Assign(name, value) ==
    "                root.style.setProperty('" \o name \o "', '" \o value \o "');\n"

DarkAssignments ==
    << Assign("--bg-color", "#1a1a1a") \o Assign("--text-color", "#e0e0e0")
           \o Assign("--header-color", "#ffffff") \o Assign("--code-bg", "#2d2d2d")
           \o Assign("--code-color", "#cccccc"),
       Assign("--blockquote-bg", "#2a2a2a") \o Assign("--border-color", "#404040") >>

LightAssignments ==
    << Assign("--bg-color", "#f4f4f4") \o Assign("--text-color", "#333")
           \o Assign("--header-color", "#2c3e50") \o Assign("--code-bg", "#e7e7e7")
           \o Assign("--code-color", "#333"),
       Assign("--blockquote-bg", "#f9f9f9") \o Assign("--border-color", "#e0e0e0") >>

\* C11: the document carries the theme-switching script, with the dark and
\* the light set of variable assignments in it, exactly when the theme is
\* "auto"; for every other theme the script part of the document is empty.
C11_ScriptIffAuto ==
    doc # "" =>
        IF req.theme = "auto"
        THEN LET part == ScriptPart(doc) IN
             /\ starts_with(part, "<script>")
             /\ contains(part, "function applyTheme(theme)")
             /\ \A i \in 1..2 : /\ contains(part, DarkAssignments[i])
                                 /\ contains(part, LightAssignments[i])
        ELSE \* nothing between the end of the style element and the end of the head
             contains(doc, "    </style>\n    \n</head>")

\* an "auto" document with its script, and an unrecognised theme without one
C11_Witness ==
    /\ req.theme = "auto"
    /\ req.markdown = "# Hello"
    /\ contains(doc, "<script>\n        function applyTheme(theme)")

\* the declarations of the :root rule the claim expects, by palette
DarkDeclarations(accent) ==
    "--bg-color: #1a1a1a; --text-color: #e0e0e0; --header-color: #ffffff; "
        \o "--code-bg: #2d2d2d; --code-color: #cccccc; --link-color: " \o accent
        \o "; --blockquote-bg: #2a2a2a; --border-color: #404040;"

LightDeclarations(accent) ==
    "--bg-color: #f4f4f4; --text-color: #333; --header-color: #2c3e50; "
        \o "--code-bg: #e7e7e7; --code-color: #333; --link-color: " \o accent
        \o "; --blockquote-bg: #f9f9f9; --border-color: #e0e0e0;"

\* C12: the eight variables of the :root rule are fixed by the theme alone:
\* the dark colours for "dark", the light colours for every other theme
\* ("light", "auto" and unrecognised ones), and --link-color is the primary
\* accent in every case.
C12_RootVariablesByTheme ==
    doc # "" =>
        LET expected == IF req.theme = "dark" THEN DarkDeclarations(req.accent)
                        ELSE LightDeclarations(req.accent)
            rule == ":root {\n            "
            at == Find(doc, rule)
        IN  /\ at > 0
            /\ StartsWithAt(doc, expected \o ";\n", at + Len(rule))
            /\ Count(doc, "--bg-color: ") = 1

\* an unrecognised theme gets the light colours and the primary accent
C12_Witness ==
    /\ req.theme = "sepia"
    /\ req.accent = "red"
    /\ req.accent_light # None
    /\ contains(doc, "--bg-color: #f4f4f4; --text-color: #333;")
    /\ contains(doc, "--link-color: red;")
(***************************************************************************)
(* The generated page in a browser: the script of lib.rs 81-112 is run as  *)
(* it stands in the document.                                              *)
(***************************************************************************)
CssVariables ==
    { "--bg-color", "--text-color", "--header-color", "--code-bg", "--code-color",
      "--link-color", "--blockquote-bg", "--border-color" }

\* the text of s between the first `open` and the first `close` after it
Between(s, open, close) ==
    LET rest == SubSeq(s, Find(s, open) + Len(open), Len(s))
    IN  SubSeq(rest, 1, Find(rest, close) - 1)

\* lines 84-102: the statements of the branch of applyTheme taken for theme
Branch(script, theme) ==
    IF theme = "dark"
    THEN Between(script, "if (theme === 'dark') {", "} else {")
    ELSE Between(script, "} else {", "// Detect system theme")

\* lines 82-103: applyTheme, the properties the taken branch sets on the
\* root element, each with the value written in its setProperty call
applyTheme(script, theme) ==
    LET statements == Branch(script, theme) IN
    [ name \in { v \in CssVariables :
                   contains(statements, "root.style.setProperty('" \o v \o "', '") }
        |-> Between(statements, "root.style.setProperty('" \o name \o "', '", "');") ]

\* the properties already set stay unless set again
SetProperties(old, new) ==
    [ name \in (DOMAIN old) \cup (DOMAIN new) |->
        IF name \in DOMAIN new THEN new[name] ELSE old[name] ]

\* the document carries the script
HasScript(d) == contains(d, "<script>\n        function applyTheme(theme)")

ViewRequests ==
    [ markdown : {"# Test"},
      font_size : {"16px"},
      font : {"sans-serif"},
      theme : Themes,
      accent : {"#3498db", "red"},
      accent_light : {None, Some("#0066cc")},
      accent_dark : {None, Some("gold")},
      favicon : {None} ]

InitView ==
    /\ req \in ViewRequests
    /\ doc = ""
    /\ prefersDark \in BOOLEAN
    /\ scriptRan = FALSE
    /\ rootStyle = << >>
    /\ changes = 0
    /\ SanIdle /\ ColIdle /\ TitleIdle /\ MainIdle /\ UnIdle

\* lines 105-112: the page is loaded; its script, if it has one, applies the
\* theme of the current preference and starts to listen for changes
LoadPage ==
    /\ doc # ""
    /\ ~scriptRan
    /\ scriptRan' = TRUE
    /\ rootStyle' = IF HasScript(doc)
                    THEN SetProperties(rootStyle,
                             applyTheme(ScriptPart(doc),
                                        IF prefersDark THEN "dark" ELSE "light"))
                    ELSE rootStyle
    /\ UNCHANGED << prefersDark, changes, genVars,
                    sanVars, colVars, titleVars, mainVars, unVars >>

\* lines 110-112: the system preference changes; the listener, once it is
\* registered, applies the theme of the new preference (e.matches)
PreferenceChange ==
    /\ changes < MaxChanges
    /\ changes' = changes + 1
    /\ prefersDark' = ~prefersDark
    /\ rootStyle' = IF scriptRan /\ HasScript(doc)
                    THEN SetProperties(rootStyle,
                             applyTheme(ScriptPart(doc),
                                        IF prefersDark' THEN "dark" ELSE "light"))
                    ELSE rootStyle
    /\ UNCHANGED << scriptRan, genVars, sanVars, colVars, titleVars, mainVars, unVars >>

NextView == Generate \/ LoadPage \/ PreferenceChange

SpecView == InitView /\ [][NextView]_vars

(***************************************************************************)
(* Theme switching claims                                                  *)
(***************************************************************************)
\* C16: once the script of an "auto" document has run, and after every
\* change of the system preference since, the eight variables set on the
\* root element are those of the palette of the current preference: the
\* seven colours are the ones generate_html writes into the :root rule for
\* theme "dark" (preference dark) or "light" (otherwise), and --link-color is
\* accent_dark (dark) or accent_light (light), or the primary accent where
\* that one is absent.
C16_PaletteFollowsPreference ==
    (req.theme = "auto" /\ scriptRan) =>
        LET palette == IF prefersDark THEN "dark" ELSE "light"
            override == IF prefersDark THEN req.accent_dark ELSE req.accent_light
            declarations == css_variables(palette, req.accent)
        IN  /\ DOMAIN rootStyle = CssVariables
            /\ \A name \in CssVariables \ {"--link-color"} :
                   contains(declarations, name \o ": " \o rootStyle[name] \o ";")
            /\ rootStyle["--link-color"] =
                   IF override # None THEN override[1] ELSE req.accent

\* dark at load, light after a change, dark again after another
C16_Witness ==
    /\ req.theme = "auto"
    /\ req.accent_dark = Some("gold")
    /\ req.accent_light = None
    /\ scriptRan
    /\ changes = 2
    /\ prefersDark
    /\ rootStyle["--bg-color"] = "#1a1a1a"
    /\ rootStyle["--link-color"] = "gold"

(***************************************************************************)
(* unescape_newlines  (lib.rs 362-392)                                     *)
(***************************************************************************)
\* number of '#' characters s starts with
RECURSIVE LeadingHashes(_)
LeadingHashes(s) ==
    IF s # "" /\ CharAt(s, 1) = "#" THEN 1 + LeadingHashes(SubSeq(s, 2, Len(s))) ELSE 0

\* str::repeat
RECURSIVE repeat(_, _)
repeat(s, n) == IF n <= 0 THEN "" ELSE s \o repeat(s, n - 1)

\* the loop body giving every repaired heading a single '#'
FixLineDepthOne(line) ==
    LET trimmed == trim_start(line) IN
    IF starts_with(trimmed, "#") /\ ~starts_with(trimmed, "# ") /\ Len(trimmed) > 1
    THEN LET header_level == LeadingHashes(trimmed)
             rest == SubSeq(trimmed, header_level + 1, Len(trimmed))
         IN  "#" \o " " \o trim_start(rest)
    ELSE line

\* lines 380-388: the loop body for one line
FixLine(line) ==
    LET trimmed == trim_start(line) IN
    IF starts_with(trimmed, "#") /\ ~starts_with(trimmed, "# ") /\ Len(trimmed) > 1
    THEN LET header_level == LeadingHashes(trimmed)
             rest == SubSeq(trimmed, header_level + 1, Len(trimmed))
         IN  "#" \o repeat("#", header_level - 1) \o " " \o trim_start(rest)
    ELSE line

\* lines 376-391: fix every line and join with "\n"
RECURSIVE FixAndJoin(_, _)
FixAndJoin(ls, i) ==
    IF i > Len(ls) THEN ""
    ELSE FixLine(ls[i]) \o (IF i < Len(ls) THEN "\n" ELSE "") \o FixAndJoin(ls, i + 1)

\* the replacements with the collapse of the double backslash put first
UnescapeRulesCollapseFirst ==
    << << "\\\\", "\\" >>,
       << "\\n", "\n" >>,
       << "\\t", "\t" >>,
       << "\\r", "\r" >>,
       << " \n", "\n" >>,
       << "\n ", "\n" >> >>

\* lines 366-371: the replacements, in the order of the chain
UnescapeRules ==
    << << "\\n", "\n" >>,
       << "\\t", "\t" >>,
       << "\\r", "\r" >>,
       << "\\\\", "\\" >>,
       << " \n", "\n" >>,
       << "\n ", "\n" >> >>

\* lines 365-372: the value of the local `result`
Replaced(input) == ApplyRules(input, UnescapeRules, 1)

unescape_newlines(input) ==
    LET result == Replaced(input)
    IN  FixAndJoin(lines(result), 1)

(***************************************************************************)
(* Calls of unescape_newlines                                              *)
(***************************************************************************)
EscFrags == { "\\", "\\\\", "n", "t", "r", "#", "##", " ", "\n", "\t", "T" }

EscapedTexts ==
    Texts(EscFrags, MaxEscFrags) \cup
    { "# T\\n\\nP", "##NoSpace", "\\\\nT", "  ## T", "##  T", "###\\tT" }

InitUnescape ==
    /\ escaped \in EscapedTexts
    /\ replaced = ""
    /\ unescaped = << >>
    /\ SanIdle /\ ColIdle /\ TitleIdle /\ GenIdle /\ MainIdle /\ ViewIdle

Unescape ==
    /\ unescaped = << >>
    /\ replaced' = Replaced(escaped)
    /\ unescaped' = << unescape_newlines(escaped) >>
    /\ UNCHANGED << escaped, sanVars, colVars, titleVars, genVars, mainVars, viewVars >>

NextUnescape == Unescape

SpecUnescape == InitUnescape /\ [][NextUnescape]_vars

(***************************************************************************)
(* Escape normalizer claims                                                *)
(***************************************************************************)
\* the pieces of s between its "\n" characters
RECURSIVE Pieces(_)
Pieces(s) ==
    LET nl == Find(s, "\n") IN
    IF nl = 0 THEN << s >>
    ELSE << SubSeq(s, 1, nl - 1) >> \o Pieces(SubSeq(s, nl + 1, Len(s)))

\* C13: the escapes backslash-n, backslash-t and backslash-r are turned into
\* control characters before the double backslash is collapsed: the returned
\* text holds none of the three two-character escapes, a double backslash
\* before an escape letter leaves its one backslash in front of the control
\* character, and "# T\n\nP" written with escapes becomes "# T", two
\* newlines, "P".
C13_EscapesBeforeCollapse ==
    unescaped # << >> =>
        LET out == unescaped[1] IN
        /\ ~contains(out, "\\n") /\ ~contains(out, "\\t") /\ ~contains(out, "\\r")
        /\ ~contains(replaced, "\\n") /\ ~contains(replaced, "\\t")
        /\ ~contains(replaced, "\\r")
        /\ escaped = "# T\\n\\nP" => out = "# T\n\nP"
        /\ escaped = "\\\\nT" => out = "\\\nT"
        /\ escaped = "\\\\tT" => out = "\\\tT"

\* a double backslash before n: the escape is read first, then the collapse
\* finds no pair, and the backslash stays in front of the newline
C13_Witness ==
    /\ escaped = "\\\\nT"
    /\ replaced = "\\\nT"
    /\ unescaped = << "\\\nT" >>

\* C14 as stated: a line whose trimmed form starts with k >= 1 '#' directly
\* followed by a character other than a space is returned as k '#', one
\* space, and everything that followed the run.
C14_NonSpaceRepaired ==
    unescaped # << >> =>
        LET ls == lines(replaced)
            out == Pieces(unescaped[1])
        IN  \A i \in 1..Len(ls) :
                LET t == trim_start(ls[i])
                    k == LeadingHashes(t)
                IN  (k >= 1 /\ Len(t) > k /\ CharAt(t, k + 1) # " ") =>
                        /\ Len(out) = Len(ls)
                        /\ out[i] = repeat("#", k) \o " " \o SubSeq(t, k + 1, Len(t))

\* C14, amended: a line whose trimmed form starts with k >= 1 '#' directly
\* followed by a character that is no whitespace is returned as k '#', one
\* space, and everything that followed the run; when a tab or another
\* whitespace character other than a space follows the run, the whitespace
\* after the run is dropped and the single space stands in its place.
C14_DepthPreserved ==
    unescaped # << >> =>
        LET ls == lines(replaced)
            out == Pieces(unescaped[1])
        IN  \A i \in 1..Len(ls) :
                LET t == trim_start(ls[i])
                    k == LeadingHashes(t)
                    rest == SubSeq(t, k + 1, Len(t))
                IN  (k >= 1 /\ Len(t) > k /\ CharAt(t, k + 1) # " ") =>
                        /\ Len(out) = Len(ls)
                        /\ LeadingHashes(out[i]) = k
                        /\ out[i] = repeat("#", k) \o " " \o trim_start(rest)
                        /\ CharAt(t, k + 1) \notin Whitespace =>
                               out[i] = repeat("#", k) \o " " \o rest

\* a heading of depth two without its space, and one of depth three with a tab
C14_Witness ==
    \/ escaped = "##NoSpace" /\ unescaped = << "## NoSpace" >>
    \/ escaped = "###\\tT" /\ replaced = "###\tT" /\ unescaped = << "### T" >>

\* C18: a line whose trimmed form does not start with '#', or whose run of
\* '#' is directly followed by a space, is returned as it is.
C18_OtherLinesUnchanged ==
    unescaped # << >> =>
        LET ls == lines(replaced)
            out == Pieces(unescaped[1])
        IN  \A i \in 1..Len(ls) :
                LET t == trim_start(ls[i])
                    k == LeadingHashes(t)
                IN  (k = 0 \/ (Len(t) > k /\ CharAt(t, k + 1) = " ")) =>
                        /\ Len(out) = Len(ls)
                        /\ out[i] = ls[i]

(***************************************************************************)
(* The command-line driver  (main.rs)                                      *)
(***************************************************************************)
\* Option::or_else and Option::unwrap_or_else
or_else(a, b) == IF a # None THEN a ELSE b
unwrap_or(a, default) == IF a # None THEN a[1] ELSE default

\* config.as_ref().and_then(|c| c.field.clone())
ConfigField(cfg, field) == IF cfg # None THEN cfg[1][field] ELSE None

config_files == << "statgen.json", "statgen.yaml", "statgen.yml" >>

\* load_config, lines 19-43, from file i on: the first file that exists,
\* reads and parses is returned; a file that fails is warned about and the
\* next one is tried
RECURSIVE LoadFrom(_, _)
LoadFrom(fs, i) ==
    IF i > Len(config_files) THEN [config |-> None, warnings |-> << >>]
    ELSE LET filename == config_files[i]
             later == LoadFrom(fs, i + 1)
         IN  CASE fs[filename].state = "absent" -> later
               [] fs[filename].state = "unreadable" ->
                    [later EXCEPT !.warnings =
                        << "Warning: Failed to read " \o filename >> \o @]
               [] fs[filename].state = "unparsable" ->
                    [later EXCEPT !.warnings =
                        << "Warning: Failed to parse " \o filename >> \o @]
               [] OTHER -> [config |-> Some(fs[filename].config), warnings |-> << >>]

\* variant that gives up at statgen.json when it cannot be read or parsed
LoadConfigGivingUp(fs) ==
    IF fs["statgen.json"].state \in {"unreadable", "unparsable"}
    THEN [config |-> None,
          warnings |-> << LoadFrom(fs, 1).warnings[1] >>]
    ELSE LoadFrom(fs, 1)

\* lines 19-43
load_config(fs) == LoadFrom(fs, 1)

\* one call, as recorded in trace
Call(op, arg, ok) == [op |-> op, arg |-> arg, ok |-> ok]

\* fs::write into the model's file map
WriteFile(fs, path, content) ==
    [q \in DOMAIN fs \cup {path} |-> IF q = path THEN content ELSE fs[q]]

\* Path::join
join(dir, name) == dir \o "/" \o name

\* The backtick of the PowerShell newline (main.rs 259) cannot be written in
\* a string of this language; the texts of the model use this character for it.
Backtick == "^"

\* lines 106-145
LoadAndResolve ==
    /\ pc = "start"
    /\ LET loaded == load_config(cfgFiles)
           cfg == loaded.config
           custom_font == cli.font # None \/ ConfigField(cfg, "font") # None
       IN  /\ config' = cfg
           /\ opt' = [ output |-> unwrap_or(or_else(cli.output, ConfigField(cfg, "output")), "dist"),
                       font_size |-> unwrap_or(or_else(cli.font_size, ConfigField(cfg, "font_size")), "16px"),
                       font |-> unwrap_or(or_else(cli.font, ConfigField(cfg, "font")), "sans-serif"),
                       theme |-> unwrap_or(or_else(cli.theme, ConfigField(cfg, "theme")), "auto"),
                       accent |-> unwrap_or(or_else(cli.accent, ConfigField(cfg, "accent")), "#3498db"),
                       accent_light |-> or_else(cli.accent_light, ConfigField(cfg, "accent_light")),
                       accent_dark |-> or_else(cli.accent_dark, ConfigField(cfg, "accent_dark")),
                       favicon |-> or_else(cli.favicon, ConfigField(cfg, "favicon")) ]
           /\ stderr' = stderr \o loaded.warnings \o
                  (IF custom_font
                   THEN << "Warning: Make sure font you requested is installed on your system" >>
                   ELSE << >>)
    /\ pc' = "validate_accent"
    /\ UNCHANGED << cli, cfgFiles, entries, next_entry, processed_count, markdown_content,
                    html_content, files, stdout, trace, outcome >>

\* the common shape of lines 148-151, 154-159 and 162-167: validate one
\* colour; on an error print it and return Err, otherwise go on at `then`
ValidateStep(at, value, then) ==
    /\ pc = at
    /\ IF value = None
       THEN /\ pc' = then
            /\ UNCHANGED << stderr, trace, outcome >>
       ELSE LET r == validate_color(value[1]) IN
            /\ trace' = Append(trace, Call("validate_color", value[1], r.ok))
            /\ IF r.ok
               THEN /\ pc' = then
                    /\ UNCHANGED << stderr, outcome >>
               ELSE /\ stderr' = Append(stderr, "Error: " \o r.err)
                    /\ outcome' = "err"
                    /\ pc' = "done"
    /\ UNCHANGED << cli, cfgFiles, config, opt, entries, next_entry, processed_count,
                    markdown_content, html_content, files, stdout >>

\* lines 148-151
ValidateAccent == ValidateStep("validate_accent", Some(opt.accent), "validate_accent_light")

\* lines 154-159
ValidateAccentLight ==
    ValidateStep("validate_accent_light", opt.accent_light, "validate_accent_dark")

\* variant with the accent-light value checked a second time
ValidateAccentDarkCopied ==
    ValidateStep("validate_accent_dark", opt.accent_light, "create_dir")

\* lines 162-167
ValidateAccentDark == ValidateStep("validate_accent_dark", opt.accent_dark, "create_dir")

\* lines 171-177: the directory is created, or the call fails and main returns
CreateOutputDir ==
    /\ pc = "create_dir"
    /\ \E ok \in BOOLEAN :
        /\ trace' = Append(trace, Call("create_dir_all", opt.output, ok))
        /\ IF ok
           THEN /\ pc' = IF cli.directory # None THEN "read_dir" ELSE "single"
                /\ UNCHANGED << stderr, outcome >>
           ELSE /\ stderr' = Append(stderr, "Error creating output directory '" \o opt.output \o "'")
                /\ outcome' = "err"
                /\ pc' = "done"
    /\ UNCHANGED << cli, cfgFiles, config, opt, entries, next_entry, processed_count,
                    markdown_content, html_content, files, stdout >>

\* what read_dir can yield for one entry: an entry error, a markdown file
\* (readable and writable; unreadable; whose output cannot be written; whose
\* name is not UTF-8), a file with another extension, a file with none
EntryKinds ==
    {"entry_error", "md", "md_unreadable", "md_unwritable", "md_non_utf8", "txt", "no_extension"}

RECURSIVE Listings(_)
Listings(n) ==
    IF n = 0 THEN {<< >>}
    ELSE Listings(n - 1) \cup {Append(l, k) : l \in {m \in Listings(n - 1) : Len(m) = n - 1},
                                              k \in EntryKinds}

\* the stem and the content of the i-th entry of a listing
EntryStem(i) == "doc" \o ToString(i)
EntryContent(i) == "# Doc " \o ToString(i) \o "\\n##Sub\n text"

\* lines 181-191
ReadDir ==
    /\ pc = "read_dir"
    /\ stdout' = Append(stdout, "Processing all .md files in directory: " \o cli.directory[1])
    /\ \/ /\ trace' = Append(trace, Call("read_dir", cli.directory[1], FALSE))
          /\ stderr' = Append(stderr, "Error reading directory '" \o cli.directory[1] \o "'")
          /\ outcome' = "err"
          /\ pc' = "done"
          /\ UNCHANGED entries
       \/ /\ trace' = Append(trace, Call("read_dir", cli.directory[1], TRUE))
          /\ entries' \in Listings(MaxEntries)
          /\ pc' = "entry"
          /\ UNCHANGED << stderr, outcome >>
    /\ next_entry' = 1
    /\ processed_count' = 0
    /\ UNCHANGED << cli, cfgFiles, config, opt, markdown_content, html_content, files >>

\* lines 192-235: the loop body for the next entry of the listing
ProcessEntry ==
    /\ pc = "entry"
    /\ next_entry <= Len(entries)
    /\ LET kind == entries[next_entry]
           path == join(cli.directory[1],
                        EntryStem(next_entry) \o
                            (CASE kind = "txt" -> ".txt"
                               [] kind = "no_extension" -> ""
                               [] OTHER -> ".md"))
           file_name == IF kind = "md_non_utf8" THEN "index" ELSE EntryStem(next_entry)
           output_path == join(opt.output, file_name \o ".html")
           content == EntryContent(next_entry)
           warned == IF kind = "md_non_utf8"
                     THEN << "Warning: Could not get file name for: " \o path >> ELSE << >>
       IN  CASE kind = "entry_error" ->
                  /\ stderr' = Append(stderr, "Error reading directory entry")
                  /\ UNCHANGED << stdout, trace, files, processed_count >>
             [] kind \in {"txt", "no_extension"} ->
                  UNCHANGED << stdout, stderr, trace, files, processed_count >>
             [] kind = "md_unreadable" ->
                  /\ stdout' = Append(stdout, "Processing: " \o path)
                  /\ stderr' = Append(stderr, "Error reading file '" \o path \o "'")
                  /\ trace' = Append(trace, Call("read_to_string", path, FALSE))
                  /\ UNCHANGED << files, processed_count >>
             [] kind = "md_unwritable" ->
                  /\ stdout' = Append(stdout, "Processing: " \o path)
                  /\ stderr' = stderr \o warned \o
                                   << "Error writing to '" \o output_path \o "'" >>
                  /\ trace' = trace \o << Call("read_to_string", path, TRUE),
                                          Call("generate_html", content, TRUE),
                                          Call("write", output_path, FALSE) >>
                  /\ UNCHANGED << files, processed_count >>
             [] OTHER ->
                  /\ stdout' = stdout \o << "Processing: " \o path,
                                            "Generated: " \o output_path >>
                  /\ stderr' = stderr \o warned
                  /\ trace' = trace \o << Call("read_to_string", path, TRUE),
                                          Call("generate_html", content, TRUE),
                                          Call("write", output_path, TRUE) >>
                  /\ files' = WriteFile(files, output_path,
                        generate_html(content, opt.font_size, opt.font, opt.theme, opt.accent,
                                      opt.accent_light, opt.accent_dark, opt.favicon))
                  /\ processed_count' = processed_count + 1
    /\ next_entry' = next_entry + 1
    /\ UNCHANGED << cli, cfgFiles, pc, config, opt, entries, markdown_content,
                    html_content, outcome >>

\* the end of the batch returning an error when a file could not be read
\* or written
FinishBatchFailing ==
    /\ pc = "entry"
    /\ next_entry > Len(entries)
    /\ stdout' = Append(stdout,
           IF processed_count = 0
           THEN "No .md files found in directory '" \o cli.directory[1] \o "'"
           ELSE "Successfully processed " \o ToString(processed_count) \o " Markdown file(s)")
    /\ outcome' = IF \E k \in 1..Len(trace) : ~trace[k].ok THEN "err" ELSE "ok"
    /\ pc' = "done"
    /\ UNCHANGED << cli, cfgFiles, config, opt, entries, next_entry, processed_count,
                    markdown_content, html_content, files, stderr, trace >>

\* lines 239-243 and 282: the listing is exhausted
FinishBatch ==
    /\ pc = "entry"
    /\ next_entry > Len(entries)
    /\ stdout' = Append(stdout,
           IF processed_count = 0
           THEN "No .md files found in directory '" \o cli.directory[1] \o "'"
           ELSE "Successfully processed " \o ToString(processed_count) \o " Markdown file(s)")
    /\ outcome' = "ok"
    /\ pc' = "done"
    /\ UNCHANGED << cli, cfgFiles, config, opt, entries, next_entry, processed_count,
                    markdown_content, html_content, files, stderr, trace >>

\* lines 246-264: the markdown of single-file or inline mode
ReadSingle ==
    /\ pc = "single"
    /\ CASE cli.file # None ->
              /\ \/ /\ trace' = Append(trace, Call("read_to_string", cli.file[1], TRUE))
                    /\ stdout' = stdout \o
                           << "Reading markdown from file: " \o cli.file[1],
                              "Markdown content length: " \o ToString(Len(EntryContent(0)))
                                  \o " characters" >>
                    /\ markdown_content' = EntryContent(0)
                    /\ pc' = "generate"
                    /\ UNCHANGED << stderr, outcome >>
                 \/ /\ trace' = Append(trace, Call("read_to_string", cli.file[1], FALSE))
                    /\ stdout' = Append(stdout, "Reading markdown from file: " \o cli.file[1])
                    /\ stderr' = Append(stderr, "Error reading file '" \o cli.file[1] \o "'")
                    /\ outcome' = "err"
                    /\ pc' = "done"
                    /\ UNCHANGED markdown_content
         [] cli.file = None /\ cli.inline # None ->
              LET text == replace(unescape_newlines(cli.inline[1]), Backtick \o "n", "\n") IN
              /\ trace' = Append(trace, Call("unescape_newlines", cli.inline[1], TRUE))
              /\ stdout' = stdout \o
                     << "Using inline markdown content",
                        "Markdown content length: " \o ToString(Len(text)) \o " characters" >>
              /\ markdown_content' = text
              /\ pc' = "generate"
              /\ UNCHANGED << stderr, outcome >>
         [] OTHER ->
              /\ outcome' = "err"
              /\ pc' = "done"
              /\ UNCHANGED << trace, stdout, stderr, markdown_content >>
    /\ UNCHANGED << cli, cfgFiles, config, opt, entries, next_entry, processed_count,
                    html_content, files >>

\* the document generated from the normalized markdown whatever its source
GenerateSingleUnescaped ==
    /\ pc = "generate"
    /\ html_content' =
           generate_html(unescape_newlines(markdown_content), opt.font_size, opt.font,
                         opt.theme, opt.accent, opt.accent_light, opt.accent_dark, opt.favicon)
    /\ trace' = trace \o << Call("unescape_newlines", markdown_content, TRUE),
                            Call("generate_html", unescape_newlines(markdown_content), TRUE) >>
    /\ pc' = "write"
    /\ UNCHANGED << cli, cfgFiles, config, opt, entries, next_entry, processed_count,
                    markdown_content, files, stdout, stderr, outcome >>

\* line 266
GenerateSingle ==
    /\ pc = "generate"
    /\ html_content' =
           generate_html(markdown_content, opt.font_size, opt.font, opt.theme, opt.accent,
                         opt.accent_light, opt.accent_dark, opt.favicon)
    /\ trace' = Append(trace, Call("generate_html", markdown_content, TRUE))
    /\ pc' = "write"
    /\ UNCHANGED << cli, cfgFiles, config, opt, entries, next_entry, processed_count,
                    markdown_content, files, stdout, stderr, outcome >>

\* lines 267-282
WriteSingle ==
    /\ pc = "write"
    /\ LET output_path == join(opt.output, "index.html") IN
       \/ /\ trace' = Append(trace, Call("write", output_path, TRUE))
          /\ files' = WriteFile(files, output_path, html_content)
          /\ stdout' = Append(stdout, "Static site generated successfully at: " \o output_path)
          /\ outcome' = "ok"
          /\ UNCHANGED stderr
       \/ /\ trace' = Append(trace, Call("write", output_path, FALSE))
          /\ stderr' = Append(stderr, "Error writing to '" \o output_path \o "'")
          /\ outcome' = "err"
          /\ UNCHANGED << files, stdout >>
    /\ pc' = "done"
    /\ UNCHANGED << cli, cfgFiles, config, opt, entries, next_entry, processed_count,
                    markdown_content, html_content >>

(***************************************************************************)
(* Runs of the driver: command lines and configuration files               *)
(***************************************************************************)
\* the options besides the colours and the input: all given, or none
Styles ==
    { [output |-> None, font_size |-> None, theme |-> None, font |-> None, favicon |-> None],
      [output |-> Some("site"), font_size |-> Some("18px"), theme |-> Some("dark"),
       font |-> Some("Georgia"), favicon |-> Some("R")] }

\* the input options: none, inline only, file and inline, directory only,
\* all three
Sources ==
    { [file |-> None, directory |-> None, inline |-> None],
      [file |-> None, directory |-> None, inline |-> Some("# T\\n\\nP^n##NoSpace")],
      [file |-> Some("in.md"), directory |-> None, inline |-> Some("# I\\nP")],
      [file |-> None, directory |-> Some("docs"), inline |-> None],
      [file |-> Some("in.md"), directory |-> Some("docs"), inline |-> Some("x")] }

CommandLines ==
    { [ file |-> src.file, directory |-> src.directory, inline |-> src.inline,
        output |-> style.output, font_size |-> style.font_size, theme |-> style.theme,
        font |-> style.font, favicon |-> style.favicon,
        accent |-> a, accent_light |-> al, accent_dark |-> ad ] :
        src \in Sources, style \in Styles,
        a \in {None, Some("red"), Some("#12")},
        al \in {None, Some("#0066cc"), Some("bluish")},
        ad \in {None, Some("GOLD"), Some("#12345")} }

\* a parsed configuration file
ConfigA ==
    [ font_size |-> Some("20px"), font |-> Some("Verdana"), theme |-> Some("light"),
      accent |-> Some("teal"), accent_light |-> None, accent_dark |-> Some("#abc"),
      output |-> Some("public"), favicon |-> None ]

ConfigB ==
    [ font_size |-> None, font |-> None, theme |-> Some("auto"),
      accent |-> Some("notacolor"), accent_light |-> Some("#0af"), accent_dark |-> None,
      output |-> None, favicon |-> Some("S") ]

ConfigFile(state, cfg) == [state |-> state, config |-> cfg]

ConfigScenarios ==
    { [f \in {"statgen.json", "statgen.yaml", "statgen.yml"} |-> ConfigFile("absent", ConfigA)],
      [f \in {"statgen.json", "statgen.yaml", "statgen.yml"} |->
          IF f = "statgen.json" THEN ConfigFile("valid", ConfigA)
          ELSE ConfigFile("absent", ConfigA)],
      [f \in {"statgen.json", "statgen.yaml", "statgen.yml"} |->
          IF f = "statgen.json" THEN ConfigFile("unparsable", ConfigA)
          ELSE ConfigFile("absent", ConfigA)],
      [f \in {"statgen.json", "statgen.yaml", "statgen.yml"} |->
          CASE f = "statgen.json" -> ConfigFile("unparsable", ConfigA)
            [] f = "statgen.yaml" -> ConfigFile("valid", ConfigB)
            [] OTHER -> ConfigFile("valid", ConfigA)],
      [f \in {"statgen.json", "statgen.yaml", "statgen.yml"} |->
          CASE f = "statgen.json" -> ConfigFile("valid", ConfigB)
            [] f = "statgen.yaml" -> ConfigFile("unparsable", ConfigA)
            [] OTHER -> ConfigFile("absent", ConfigA)],
      [f \in {"statgen.json", "statgen.yaml", "statgen.yml"} |->
          CASE f = "statgen.json" -> ConfigFile("unreadable", ConfigA)
            [] f = "statgen.yaml" -> ConfigFile("unparsable", ConfigB)
            [] OTHER -> ConfigFile("valid", ConfigA)] }

InitMain ==
    /\ cli \in CommandLines
    /\ cfgFiles \in ConfigScenarios
    /\ pc = "start"
    /\ config = None
    /\ opt = << >>
    /\ entries = << >>
    /\ next_entry = 1
    /\ processed_count = 0
    /\ markdown_content = ""
    /\ html_content = ""
    /\ files = << >>
    /\ stdout = << >>
    /\ stderr = << >>
    /\ trace = << >>
    /\ outcome = "running"
    /\ SanIdle /\ ColIdle /\ TitleIdle /\ GenIdle /\ UnIdle /\ ViewIdle

NextMain ==
    /\ \/ LoadAndResolve
       \/ ValidateAccent
       \/ ValidateAccentLight
       \/ ValidateAccentDark
       \/ CreateOutputDir
       \/ ReadDir
       \/ ProcessEntry
       \/ FinishBatch
       \/ ReadSingle
       \/ GenerateSingle
       \/ WriteSingle
    /\ UNCHANGED << sanVars, colVars, titleVars, genVars, unVars, viewVars >>

SpecMain == InitMain /\ [][NextMain]_vars

(***************************************************************************)
(* Driver claims                                                           *)
(***************************************************************************)
\* the calls that generate a document or touch the output directory
Effects == {"create_dir_all", "generate_html", "write"}

\* validate_color has accepted token before the k-th call
AcceptedBefore(token, k) ==
    \E j \in 1..(k - 1) : trace[j] = Call("validate_color", token, TRUE)

\* C8: generate_html is called, and the output directory or a file is
\* created, only after validate_color has accepted the accent and every
\* supplied accent-light and accent-dark value, all of which are then
\* acceptable colours; once a colour is rejected main returns an error and
\* nothing has been generated or written.
C8_ValidatedBeforeGeneration ==
    /\ \A k \in 1..Len(trace) :
           trace[k].op \in Effects =>
               /\ AcceptedBefore(opt.accent, k)
               /\ Acceptable(opt.accent)
               /\ opt.accent_light # None =>
                      AcceptedBefore(opt.accent_light[1], k) /\ Acceptable(opt.accent_light[1])
               /\ opt.accent_dark # None =>
                      AcceptedBefore(opt.accent_dark[1], k) /\ Acceptable(opt.accent_dark[1])
    /\ (\E k \in 1..Len(trace) : trace[k].op = "validate_color" /\ ~trace[k].ok) =>
           /\ pc = "done"
           /\ outcome = "err"
           /\ \A k \in 1..Len(trace) : trace[k].op \notin Effects
           /\ files = << >>
           /\ html_content = ""

\* a run with all three colours supplied that generated and wrote a document
C8_Witness ==
    /\ outcome = "ok"
    /\ opt.accent_light # None
    /\ opt.accent_dark # None
    /\ \E k \in 1..Len(trace) : trace[k].op = "generate_html"
    /\ files # << >>

\* the path and the content of the i-th markdown file of the run: the
\* entries of the directory in directory mode, file 0 the --file argument
SourcePath(i) ==
    IF i = 0 THEN cli.file[1] ELSE join(cli.directory[1], EntryStem(i) \o ".md")

SourceFiles ==
    IF cli.directory # None THEN 1..Len(entries)
    ELSE IF cli.file # None THEN {0} ELSE {}

\* C19: unescape_newlines is called on the --inline text only, and only when
\* neither --file nor --directory is given; the markdown of a file, given
\* with --file or found in the directory, reaches generate_html exactly as
\* read_to_string returned it.
C19_FilesNotNormalized ==
    \A k \in 1..Len(trace) :
        /\ trace[k].op = "unescape_newlines" =>
               /\ cli.file = None /\ cli.directory = None /\ cli.inline # None
               /\ trace[k].arg = cli.inline[1]
        /\ (trace[k].op = "generate_html" /\ (cli.file # None \/ cli.directory # None)) =>
               /\ k > 1
               /\ trace[k - 1].op = "read_to_string" /\ trace[k - 1].ok
               /\ \E i \in SourceFiles :
                      /\ trace[k - 1].arg = SourcePath(i)
                      /\ trace[k].arg = EntryContent(i)

\* a file with an escape and a heading without its space in it, given
\* together with --inline, generated from as it was read
C19_Witness ==
    /\ cli.file # None /\ cli.directory = None /\ cli.inline # None
    /\ outcome = "ok"
    /\ \E k \in 1..Len(trace) :
           /\ trace[k].op = "generate_html"
           /\ contains(trace[k].arg, "\\n##Sub")
    /\ \A k \in 1..Len(trace) : trace[k].op # "unescape_newlines"

\* the markdown entries of the listing, and the calls of one kind that failed
MarkdownEntries ==
    { i \in 1..Len(entries) :
        entries[i] \in {"md", "md_unreadable", "md_unwritable", "md_non_utf8"} }

Failed(op) == { k \in 1..Len(trace) : trace[k].op = op /\ ~trace[k].ok }

\* C20: in directory mode, once the directory is listed, a markdown file that
\* cannot be read or whose document cannot be written is reported on stderr
\* and skipped: every markdown entry of the listing is read, the run returns
\* Ok, and processed_count is the number of documents written.  Without
\* --directory a failed read or write is the last call of the run, which
\* returns an error.
C20_FileErrors ==
    /\ (cli.directory # None /\ entries # << >>) =>
           /\ outcome # "err"
           /\ processed_count =
                  Cardinality({ k \in 1..Len(trace) : trace[k].op = "write" /\ trace[k].ok })
           /\ \A i \in MarkdownEntries :
                  i < next_entry =>
                      /\ \E k \in 1..Len(trace) :
                             /\ trace[k].op = "read_to_string"
                             /\ trace[k].arg = SourcePath(i)
                             /\ trace[k].ok <=> entries[i] # "md_unreadable"
                      /\ entries[i] = "md_unreadable" =>
                             \E n \in 1..Len(stderr) :
                                 stderr[n] = "Error reading file '" \o SourcePath(i) \o "'"
                      /\ entries[i] = "md_unwritable" =>
                             \E n \in 1..Len(stderr) :
                                 starts_with(stderr[n], "Error writing to '")
           /\ pc = "done" =>
                  /\ outcome = "ok"
                  /\ next_entry = Len(entries) + 1
                  /\ processed_count =
                         Cardinality({ i \in MarkdownEntries :
                                         entries[i] \in {"md", "md_non_utf8"} })
    /\ (cli.directory = None /\ Failed("read_to_string") \cup Failed("write") # {}) =>
           /\ pc = "done"
           /\ outcome = "err"
           /\ ~trace[Len(trace)].ok

\* a batch whose first file cannot be read and whose second is written
C20_Witness ==
    /\ cli.directory # None
    /\ entries = << "md_unreadable", "md" >>
    /\ pc = "done"
    /\ outcome = "ok"
    /\ processed_count = 1

\* the option values of main with no configuration file, lines 110-145
Defaults ==
    [ output |-> Some("dist"), font_size |-> Some("16px"), font |-> Some("sans-serif"),
      theme |-> Some("auto"), accent |-> Some("#3498db"),
      accent_light |-> None, accent_dark |-> None, favicon |-> None ]

\* the options when the values of source come between the command line and
\* the defaults; source is None or Some(configuration)
Resolved(source) ==
    [ field \in DOMAIN Defaults |->
        LET given == IF cli[field] # None THEN cli[field]
                     ELSE IF source # None /\ source[1][field] # None THEN source[1][field]
                     ELSE Defaults[field]
        IN  IF field \in {"accent_light", "accent_dark", "favicon"} THEN given
            ELSE given[1] ]

\* file number i is opened: no file before it was read and parsed
Tried(i) == \A j \in 1..(i - 1) : cfgFiles[config_files[j]].state # "valid"

\* the files that were opened and failed to parse
FailedToParse ==
    { i \in 1..Len(config_files) :
        Tried(i) /\ cfgFiles[config_files[i]].state = "unparsable" }

\* the first file that reads and parses, if there is one
FirstParsed ==
    IF \E i \in 1..Len(config_files) : cfgFiles[config_files[i]].state = "valid"
    THEN Some(cfgFiles[config_files[
             CHOOSE i \in 1..Len(config_files) :
                 Tried(i) /\ cfgFiles[config_files[i]].state = "valid"]].config)
    ELSE None

\* a call that failed, or no input at all: the reasons main has to return
\* an error
OtherFailure ==
    \/ \E k \in 1..Len(trace) : ~trace[k].ok
    \/ cli.file = None /\ cli.directory = None /\ cli.inline = None

\* C21 as stated: when a configuration file failed to parse, a warning is
\* on stderr, main goes on, and every option is the command-line value or
\* the default: no value of any configuration file is used.
C21_NoConfigValueUsed ==
    (pc # "start" /\ FailedToParse # {}) =>
        /\ \A i \in FailedToParse :
               \E n \in 1..Len(stderr) :
                   stderr[n] = "Warning: Failed to parse " \o config_files[i]
        /\ outcome = "err" => OtherFailure
        /\ opt = Resolved(None)

\* C21, amended: a configuration file that fails to parse is never fatal: a
\* warning is logged, no value of that file is used, and the files after it
\* are still tried in the order statgen.json, statgen.yaml, statgen.yml;
\* every option is the command-line value if given, otherwise the value of
\* the first file that reads and parses, otherwise the default.  Only when
\* no file parses does every option come from the command line or the
\* defaults.
C21_ParseFailureSkipsFile ==
    (pc # "start" /\ FailedToParse # {}) =>
        /\ \A i \in FailedToParse :
               \E n \in 1..Len(stderr) :
                   stderr[n] = "Warning: Failed to parse " \o config_files[i]
        /\ outcome = "err" => OtherFailure
        /\ config = FirstParsed
        /\ opt = Resolved(FirstParsed)
        /\ FirstParsed = None => opt = Resolved(None)

\* statgen.json does not parse, statgen.yaml does, and its favicon and
\* accent-light are used where the command line gives none
C21_Witness ==
    /\ cfgFiles["statgen.json"].state = "unparsable"
    /\ cfgFiles["statgen.yaml"].state = "valid"
    /\ cli.favicon = None /\ cli.accent_light = None /\ cli.accent = Some("red")
    /\ opt # << >>
    /\ opt.favicon = Some("S")
    /\ opt.accent_light = Some("#0af")
    /\ outcome = "ok"
=============================================================================
